---------------------------- MODULE Spec2Model ----------------------------
(***************************************************************************)
(* Control-flow model of the imitation-GAN training program, src/main.py.  *)
(*                                                                         *)
(* The program is one sequential process.  Its position is pc; every       *)
(* action is one block of straight-line statements of the __main__ body.   *)
(* Tensor contents are not modelled: the tensor/autograd engine (torch)    *)
(* and the task object are collaborators whose calls are taken to return.  *)
(* What is modelled is everything the main program itself decides: which   *)
(* calls are made, in which order and how often, the flags it sets before  *)
(* them (actor.eps_sample, requires_grad, print_generated), critic.gamma,  *)
(* the replay buffer's contents by entry identity, and the solved tracker. *)
(*                                                                         *)
(* Floats: gamma and gamma_inc are fixed-point multiples of 1/One;  eps is *)
(* a multiple of 1e-9, so that the literal 1e-8 is EpsThreshold.           *)
(*                                                                         *)
(* util.py (ReplayMemory, the tasks) is not among the sources; the buffer  *)
(* operations ReplayPush and ReplaySample follow the written contract of   *)
(* the replay memory.                                                      *)
(***************************************************************************)
EXTENDS Integers, Sequences, FiniteSets, TLC

\* ------------------------------------------------------------- bounds
MaxIter == 6
MaxThreshold == 3
MaxFail == 3
MaxGammaInc == 2
MaxBatch == 2
MaxReplayActors == 1
MaxInner == 2
MaxBurnin == 1
MaxGenEvery == 2

\* ------------------------------------------------- program constants
\* the literal 1.0 of the gamma anneal, in gamma units
One == 4
\* the literal 1e-8 of the eps_sample test, in units of 1e-9
EpsThreshold == 10

Min(a, b) == IF a <= b THEN a ELSE b

\* ------------------------------------------------------ configurations
\* The parsed options.  Base is a small run; each family below varies the
\* options one group of statements depends on.
Base ==
  [ niter |-> 3, batch_size |-> 1, eps |-> 0, gamma |-> One, gamma_inc |-> 0,
    replay_actors |-> 1, solved_threshold |-> 2, solved_max_fail |-> 1,
    critic_iters |-> 1, actor_iters |-> 1, burnin |-> 0,
    burnin_actor_iters |-> 1, burnin_critic_iters |-> 1,
    task |-> "lm", gen_every |-> 2 ]

Tasks == {"lm", "longterm", "words"}

TrackerConfigs ==
  { [Base EXCEPT !.niter = n, !.solved_threshold = t, !.solved_max_fail = f] :
      n \in {0, MaxIter}, t \in 0..MaxThreshold, f \in 0..MaxFail }

GammaConfigs ==
  { [Base EXCEPT !.gamma = g, !.gamma_inc = i] :
      g \in (0 - 1)..(One + 2), i \in 0..MaxGammaInc }

\* two outer iterations are enough to overfill the buffer
BufferConfigs ==
  { [Base EXCEPT !.niter = 2, !.batch_size = b, !.replay_actors = r,
                 !.critic_iters = c, !.burnin = u, !.burnin_critic_iters = bc] :
      b \in 1..MaxBatch, r \in 0..MaxReplayActors, c \in {1, 2},
      u \in {0, 1}, bc \in {0, 3} }

\* the inner iteration counts and the burn-in window
PhaseConfigs ==
  { [Base EXCEPT !.burnin = u, !.critic_iters = c, !.actor_iters = a,
                 !.burnin_critic_iters = bc, !.burnin_actor_iters = ba] :
      u \in 0..MaxBurnin, c \in 1..MaxInner, a \in 0..MaxInner,
      bc \in 0..MaxInner, ba \in 0..MaxInner }

\* exploration, visualization and the task's evidence
VisConfigs ==
  { [Base EXCEPT !.burnin = u, !.actor_iters = a, !.burnin_actor_iters = ba,
                 !.burnin_critic_iters = bc, !.gen_every = ge, !.eps = e,
                 !.task = t] :
      u \in 0..1, a \in 0..MaxInner, ba \in 0..1, bc \in 0..1,
      ge \in 1..MaxGenEvery, e \in {0, EpsThreshold, EpsThreshold + 1},
      t \in Tasks }

Configs ==
  TrackerConfigs \cup GammaConfigs \cup BufferConfigs \cup PhaseConfigs
    \cup VisConfigs

\* ---------------------------------------------------------------- state
VARIABLES
  opt,              \* the parsed options (never assigned after parsing)
  pc,               \* position in the __main__ body
  cur_iter,         \* the outer loop variable
  solved,           \* solved counter
  solved_fail,      \* failures inside the current streak
  eps_sample,       \* actor.eps_sample
  gamma,            \* critic.gamma
  requires_grad,    \* param.requires_grad of the critic's parameters
  critic_iters,     \* local: inner critic iterations of this outer iteration
  actor_iters,      \* local: inner actor iterations of this outer iteration
  critic_i,         \* inner loop variable of the critic phase
  actor_i,          \* inner loop variable of the actor phase
  print_generated,  \* local flag of the visualization iteration
  generated,        \* the local `generated`: where the batch came from
  avgprobs,         \* whether the local `avgprobs` is bound
  buffer,           \* replay memory: entry ids, oldest first
  pushed,           \* number of entries ever pushed (entry ids are 1..pushed)
  params,           \* the evidence handed to task.solved
  ops,              \* history: calls made so far, by kind
  ops0,             \* history: ops at the start of the current outer iteration
  last_gen,         \* history: the flags of the latest actor() call
  results,          \* history: the results of task.solved, in order
  solved_hist,      \* history: solved after each task.solved
  streak            \* history: consecutive successes ending at the last check

vars == << opt, pc, cur_iter, solved, solved_fail, eps_sample, gamma,
           requires_grad, critic_iters, actor_iters, critic_i, actor_i,
           print_generated, generated, avgprobs, buffer, pushed, params,
           ops, ops0, last_gen, results, solved_hist, streak >>

Unbound == [src |-> "unbound", real_last |-> FALSE, ids |-> {}]
NoOps == [push |-> 0, sample |-> 0, cstep |-> 0, astep |-> 0,
          anneal |-> 0, check |-> 0]
NoGen == [phase |-> "none", eps_sample |-> FALSE, first_vis |-> FALSE,
          iter |-> 0]
NoParams == [kind |-> "unset", real_last |-> FALSE, rows |-> 0]

\* main.py:201  opt.replay_size
ReplaySize(o) == o.replay_actors * o.batch_size * o.critic_iters

Init ==
  /\ opt \in Configs
  /\ pc = "startup"
  /\ cur_iter = 0
  /\ solved = 0
  /\ solved_fail = 0
  /\ eps_sample = TRUE
  /\ gamma = opt.gamma
  /\ requires_grad = TRUE
  /\ critic_iters = 0
  /\ actor_iters = 0
  /\ critic_i = 0
  /\ actor_i = 0
  /\ print_generated = FALSE
  /\ generated = Unbound
  /\ avgprobs = FALSE
  /\ buffer = << >>
  /\ pushed = 0
  /\ params = NoParams
  /\ ops = NoOps
  /\ ops0 = NoOps
  /\ last_gen = NoGen
  /\ results = << >>
  /\ solved_hist = << >>
  /\ streak = 0


\* ------------------------------------------------- pieces of the program
\* the capacity check left out
ReplayCapacityUnchecked(o) == TRUE

\* main.py:225  assert opt.replay_size >= opt.batch_size
ReplayCapacityOK(o) == ReplaySize(o) >= o.batch_size

\* the early-exit test with > for >=
SolvedExitStrict(s, o) == s > o.solved_threshold

\* main.py:243  the early-exit test at the top of an outer iteration
SolvedExit(s, o) == s >= o.solved_threshold

\* main.py:246 and 352  opt.eps > 1e-8
ExploreOn(o) == o.eps > EpsThreshold

\* the assignment at the top of the iteration left out
TopEpsSampleKept(before, o) == before

\* main.py:246  actor.eps_sample after the assignment at the top of an
\* iteration, given its value before
TopEpsSample(before, o) == ExploreOn(o)

\* the reset loop left out
UnfreezeSkipped(before) == before

\* main.py:249-250  requires_grad of the critic parameters after the reset
\* loop, given its value before
Unfreeze(before) == TRUE

\* the burn-in test with <= for <
CriticItersLate(k, o) ==
  IF k <= o.burnin THEN o.burnin_critic_iters ELSE o.critic_iters

\* main.py:251-254
CriticIters(k, o) ==
  IF k < o.burnin THEN o.burnin_critic_iters ELSE o.critic_iters

\* main.py:299-302
ActorIters(k, o) ==
  IF k < o.burnin THEN o.burnin_actor_iters ELSE o.actor_iters

\* main.py:303  cur_iter % opt.gen_every == 0
IsVisIter(k, o) == k % o.gen_every = 0

\* the anneal without its cap
GammaAnnealUncapped(g, o) == g + o.gamma_inc

\* main.py:353  min(critic.gamma + opt.gamma_inc, 1.0)
GammaAnneal(g, o) == Min(g + o.gamma_inc, One)

\* main.py:389-390  whether the last row of `generated` is cut off
StripLastRow(pg, ai) == pg /\ ai = 1

\* the tracker with > for >= in the solved_max_fail test
SolvedTrackerStrict(ok, s, f, o) ==
  IF ok
    THEN [solved |-> s + 1, solved_fail |-> f]
    ELSE LET f1 == IF s > 0 THEN f + 1 ELSE f
             reset == IF s > 0 THEN f1 > o.solved_max_fail ELSE TRUE
         IN IF reset THEN [solved |-> 0, solved_fail |-> 0]
                     ELSE [solved |-> s, solved_fail |-> f1]

\* the tracker without the count of failures inside a streak
SolvedTrackerUncounted(ok, s, f, o) ==
  IF ok
    THEN [solved |-> s + 1, solved_fail |-> f]
    ELSE LET reset == IF s > 0 THEN f >= o.solved_max_fail ELSE TRUE
         IN IF reset THEN [solved |-> 0, solved_fail |-> 0]
                     ELSE [solved |-> s, solved_fail |-> f]

\* the tracker with solved_fail cleared by every successful check
SolvedTrackerForgetful(ok, s, f, o) ==
  IF ok
    THEN [solved |-> s + 1, solved_fail |-> 0]
    ELSE LET f1 == IF s > 0 THEN f + 1 ELSE f
             reset == IF s > 0 THEN f1 >= o.solved_max_fail ELSE TRUE
         IN IF reset THEN [solved |-> 0, solved_fail |-> 0]
                     ELSE [solved |-> s, solved_fail |-> f1]

\* main.py:394-405  the solved tracker: the counters after one check
SolvedTracker(ok, s, f, o) ==
  IF ok
    THEN [solved |-> s + 1, solved_fail |-> f]
    ELSE LET f1 == IF s > 0 THEN f + 1 ELSE f
             reset == IF s > 0 THEN f1 >= o.solved_max_fail ELSE TRUE
         IN IF reset THEN [solved |-> 0, solved_fail |-> 0]
                     ELSE [solved |-> s, solved_fail |-> f1]

\* push that keeps the oldest entries and drops the newest
ReplayPushKeepOldest(buf, cap, batch) ==
  LET all == buf \o batch
  IN IF Len(all) <= cap THEN all ELSE SubSeq(all, 1, cap)

\* Replay memory, push: append the batch, evicting the oldest entries that
\* no longer fit in the capacity.
ReplayPush(buf, cap, batch) ==
  LET all == buf \o batch
  IN IF Len(all) <= cap THEN all
     ELSE SubSeq(all, Len(all) - cap + 1, Len(all))

\* The sets of k positions among 1..m.
RECURSIVE Positions(_, _)
Positions(m, k) ==
  IF k = 0 THEN { {} }
  ELSE IF m < k THEN {}
  ELSE Positions(m - 1, k) \cup { T \cup {m} : T \in Positions(m - 1, k - 1) }

\* Replay memory, sample: the sets of n distinct stored entries.
ReplaySample(buf, n) ==
  { { buf[i] : i \in S } : S \in Positions(Len(buf), n) }

\* ---------------------------------------------------------------- actions
Tracker == << solved, solved_fail, results, solved_hist, streak >>
Locals == << critic_iters, actor_iters, critic_i, actor_i, print_generated >>
Replay == << buffer, pushed >>

\* main.py:225-236, the capacity check passes
StartupOK ==
  /\ pc = "startup"
  /\ ReplayCapacityOK(opt)
  /\ pc' = "for"
  /\ UNCHANGED << opt, cur_iter, eps_sample, gamma, requires_grad, generated,
                  avgprobs, params, ops, ops0, last_gen >>
  /\ UNCHANGED << Tracker, Locals, Replay >>

\* main.py:225, the capacity check fails: AssertionError before training
StartupAbort ==
  /\ pc = "startup"
  /\ ~ReplayCapacityOK(opt)
  /\ pc' = "abort"
  /\ UNCHANGED << opt, cur_iter, eps_sample, gamma, requires_grad, generated,
                  avgprobs, params, ops, ops0, last_gen >>
  /\ UNCHANGED << Tracker, Locals, Replay >>

\* main.py:242  xrange(opt.niter) is used up
LoopExhausted ==
  /\ pc = "for"
  /\ cur_iter >= opt.niter
  /\ pc' = "done"
  /\ UNCHANGED << opt, cur_iter, eps_sample, gamma, requires_grad, generated,
                  avgprobs, params, ops, ops0, last_gen >>
  /\ UNCHANGED << Tracker, Locals, Replay >>

\* main.py:243-245  break
LoopBreak ==
  /\ pc = "for"
  /\ cur_iter < opt.niter
  /\ SolvedExit(solved, opt)
  /\ pc' = "done"
  /\ UNCHANGED << opt, cur_iter, eps_sample, gamma, requires_grad, generated,
                  avgprobs, params, ops, ops0, last_gen >>
  /\ UNCHANGED << Tracker, Locals, Replay >>

\* main.py:246-258  top of an iteration up to the critic loop
IterBegin ==
  /\ pc = "for"
  /\ cur_iter < opt.niter
  /\ ~SolvedExit(solved, opt)
  /\ eps_sample' = TopEpsSample(eps_sample, opt)
  /\ requires_grad' = Unfreeze(requires_grad)
  /\ critic_iters' = CriticIters(cur_iter, opt)
  /\ critic_i' = 0
  /\ ops0' = ops
  /\ pc' = "critic"
  /\ UNCHANGED << opt, cur_iter, gamma, generated, avgprobs, params, ops,
                  last_gen, actor_iters, actor_i, print_generated >>
  /\ UNCHANGED << Tracker, Replay >>

\* main.py:259-265  one more critic iteration: generated, ... = actor()
CriticGenerate ==
  /\ pc = "critic"
  /\ critic_i < critic_iters
  /\ generated' = [src |-> "critic", real_last |-> FALSE,
                   ids |-> (pushed + 1)..(pushed + opt.batch_size)]
  /\ last_gen' = [phase |-> "critic", eps_sample |-> eps_sample,
                  first_vis |-> FALSE, iter |-> cur_iter]
  /\ pc' = "push"
  /\ UNCHANGED << opt, cur_iter, eps_sample, gamma, requires_grad, avgprobs,
                  params, ops, ops0 >>
  /\ UNCHANGED << Tracker, Locals, Replay >>

\* main.py:266  buffer.push(generated, corrections)
BufferPush ==
  /\ pc = "push"
  /\ buffer' = ReplayPush(buffer, ReplaySize(opt),
                          [i \in 1..opt.batch_size |-> pushed + i])
  /\ pushed' = pushed + opt.batch_size
  /\ ops' = [ops EXCEPT !.push = @ + 1]
  /\ pc' = "sample"
  /\ UNCHANGED << opt, cur_iter, eps_sample, gamma, requires_grad, generated,
                  avgprobs, params, ops0, last_gen >>
  /\ UNCHANGED << Tracker, Locals >>

\* main.py:267  generated, corrections = buffer.sample(opt.batch_size);
\* the call fails on a buffer holding fewer entries
BufferSample ==
  /\ pc = "sample"
  /\ ops' = [ops EXCEPT !.sample = @ + 1]
  /\ IF Len(buffer) >= opt.batch_size
       THEN /\ \E s \in ReplaySample(buffer, opt.batch_size) :
                 generated' = [src |-> "replay", real_last |-> FALSE, ids |-> s]
            /\ pc' = "critic_update"
       ELSE /\ generated' = generated
            /\ pc' = "crashed"
  /\ UNCHANGED << opt, cur_iter, eps_sample, gamma, requires_grad, avgprobs,
                  params, ops0, last_gen >>
  /\ UNCHANGED << Tracker, Locals, Replay >>

\* main.py:268-294  both critic losses, clip, critic_optimizer.step()
CriticUpdate ==
  /\ pc = "critic_update"
  /\ ops' = [ops EXCEPT !.cstep = @ + 1]
  /\ critic_i' = critic_i + 1
  /\ pc' = "critic"
  /\ UNCHANGED << opt, cur_iter, eps_sample, gamma, requires_grad, generated,
                  avgprobs, params, ops0, last_gen, critic_iters, actor_iters,
                  actor_i, print_generated >>
  /\ UNCHANGED << Tracker, Replay >>

\* main.py:297-310  the critic loop is over: freeze the critic, choose the
\* actor iterations, set up the visualization
ActorBegin ==
  /\ pc = "critic"
  /\ critic_i >= critic_iters
  /\ requires_grad' = FALSE
  /\ actor_iters' = ActorIters(cur_iter, opt)
  /\ print_generated' = IsVisIter(cur_iter, opt)
  /\ eps_sample' = IF IsVisIter(cur_iter, opt) THEN FALSE ELSE eps_sample
  /\ actor_i' = 0
  /\ pc' = "actor"
  /\ UNCHANGED << opt, cur_iter, gamma, generated, avgprobs, params, ops, ops0,
                  last_gen, critic_iters, critic_i >>
  /\ UNCHANGED << Tracker, Replay >>

\* main.py:311-315  one more actor iteration: generated, ..., avgprobs =
\* actor(); in the visualization pass the last row is overwritten by real data
ActorGenerate ==
  /\ pc = "actor"
  /\ actor_i < actor_iters
  /\ generated' = [src |-> "actor", real_last |-> print_generated, ids |-> {}]
  /\ avgprobs' = TRUE
  /\ last_gen' = [phase |-> "actor", eps_sample |-> eps_sample,
                  first_vis |-> (actor_i = 0 /\ cur_iter % opt.gen_every = 0),
                  iter |-> cur_iter]
  /\ pc' = "actor_update"
  /\ UNCHANGED << opt, cur_iter, eps_sample, gamma, requires_grad, params,
                  ops, ops0 >>
  /\ UNCHANGED << Tracker, Locals, Replay >>

\* main.py:316-352  actor loss, clip, actor_optimizer.step(), and the end of
\* the visualization pass
ActorUpdate ==
  /\ pc = "actor_update"
  /\ ops' = [ops EXCEPT !.astep = @ + 1]
  /\ print_generated' = FALSE
  /\ eps_sample' = IF print_generated THEN ExploreOn(opt) ELSE eps_sample
  /\ actor_i' = actor_i + 1
  /\ pc' = "actor"
  /\ UNCHANGED << opt, cur_iter, gamma, requires_grad, generated, avgprobs,
                  params, ops0, last_gen, critic_iters, actor_iters, critic_i >>
  /\ UNCHANGED << Tracker, Replay >>

\* main.py:353  the actor loop is over: anneal gamma
Anneal ==
  /\ pc = "actor"
  /\ actor_i >= actor_iters
  /\ gamma' = GammaAnneal(gamma, opt)
  /\ ops' = [ops EXCEPT !.anneal = @ + 1]
  /\ pc' = "evidence"
  /\ UNCHANGED << opt, cur_iter, eps_sample, requires_grad, generated, avgprobs,
                  params, ops0, last_gen >>
  /\ UNCHANGED << Tracker, Locals, Replay >>

\* main.py:385-393  a name the evidence needs was never assigned
EvidenceUnbound(o) ==
  \/ o.task = "longterm" /\ ~avgprobs
  \/ o.task = "words" /\ generated.src = "unbound"

\* main.py:385-393  params for task.solved
Evidence ==
  /\ pc = "evidence"
  /\ ~EvidenceUnbound(opt)
  /\ params' =
       IF opt.task = "longterm"
         THEN [kind |-> "avgprobs", real_last |-> FALSE, rows |-> 0]
       ELSE IF opt.task = "words"
         THEN IF StripLastRow(print_generated, actor_iters)
                THEN [kind |-> "generated", real_last |-> FALSE,
                      rows |-> opt.batch_size - 1]
                ELSE [kind |-> "generated", real_last |-> generated.real_last,
                      rows |-> opt.batch_size]
       ELSE [kind |-> "none", real_last |-> FALSE, rows |-> 0]
  /\ pc' = "check"
  /\ UNCHANGED << opt, cur_iter, eps_sample, gamma, requires_grad, generated,
                  avgprobs, ops, ops0, last_gen >>
  /\ UNCHANGED << Tracker, Locals, Replay >>

\* main.py:386, 388  NameError: avgprobs or generated is not bound
EvidenceNameError ==
  /\ pc = "evidence"
  /\ EvidenceUnbound(opt)
  /\ pc' = "crashed"
  /\ UNCHANGED << opt, cur_iter, eps_sample, gamma, requires_grad, generated,
                  avgprobs, params, ops, ops0, last_gen >>
  /\ UNCHANGED << Tracker, Locals, Replay >>

\* main.py:394-405  task.solved(*params) and the tracker; then the next
\* value of the loop variable (main.py:242)
SolvedCheck ==
  /\ pc = "check"
  /\ \E ok \in BOOLEAN :
       LET t == SolvedTracker(ok, solved, solved_fail, opt)
       IN /\ solved' = t.solved
          /\ solved_fail' = t.solved_fail
          /\ results' = Append(results, ok)
          /\ solved_hist' = Append(solved_hist, t.solved)
          /\ streak' = IF ok THEN streak + 1 ELSE 0
  /\ ops' = [ops EXCEPT !.check = @ + 1]
  /\ cur_iter' = cur_iter + 1
  /\ pc' = "for"
  /\ UNCHANGED << opt, eps_sample, gamma, requires_grad, generated, avgprobs,
                  params, ops0, last_gen >>
  /\ UNCHANGED << Locals, Replay >>

Next ==
  \/ StartupOK
  \/ StartupAbort
  \/ LoopExhausted
  \/ LoopBreak
  \/ IterBegin
  \/ CriticGenerate
  \/ BufferPush
  \/ BufferSample
  \/ CriticUpdate
  \/ ActorBegin
  \/ ActorGenerate
  \/ ActorUpdate
  \/ Anneal
  \/ Evidence
  \/ EvidenceNameError
  \/ SolvedCheck

Spec == Init /\ [][Next]_vars

\* The program is one sequential process: it always takes its next step.
FairSpec == Spec /\ WF_vars(Next)

Halted == {"done", "abort", "crashed"}

\* ------------------------------------------------------------------ C1
\* The scenario of C1: threshold 3, solved_max_fail 1, and the results
\* success, success, fail, success, success.
C1_Scenario ==
  /\ opt.solved_threshold = 3
  /\ opt.solved_max_fail = 1
  /\ results = << TRUE, TRUE, FALSE, TRUE, TRUE >>

\* One check of the solved predicate, as C1 states it.
C1_Step ==
  (pc = "check" /\ Len(results') = Len(results) + 1) =>
    LET ok == results'[Len(results')]
    IN /\ ok => solved' = solved + 1
       /\ (~ok /\ solved > 0 /\ solved_fail + 1 >= opt.solved_max_fail) =>
            (solved' = 0 /\ solved_fail' = 0)
       /\ (~ok /\ solved > 0 /\ solved_fail + 1 < opt.solved_max_fail) =>
            (solved' = solved /\ solved_fail' = solved_fail + 1)
       /\ (~ok /\ solved = 0) =>
            (solved_fail = 0 /\ solved' = 0 /\ solved_fail' = 0)

\* C1: a failed check with solved > 0 adds 1 to solved_fail and, when that
\* reaches solved_max_fail, resets both counters, otherwise leaves solved
\* alone; a failed check with solved = 0 leaves both counters at 0; a
\* successful check adds 1 to solved.  With threshold 3 and solved_max_fail 1
\* the results success, success, fail, success, success give solved =
\* 1, 2, 0, 1, 2 and the loop has not exited through its solved test.
C1_SolvedTracker ==
  /\ [][C1_Step]_vars
  /\ [](C1_Scenario =>
          /\ solved_hist = << 1, 2, 0, 1, 2 >>
          /\ (pc = "done" => cur_iter >= opt.niter))

\* The scenario has run and the loop has entered its sixth iteration.
C1_Witness == C1_Scenario /\ pc = "critic" /\ cur_iter = 5

\* ------------------------------------------------------------------ C2
C2_AtTop == pc = "for" /\ cur_iter < opt.niter

\* C2: the outer loop always ends; at the top of an iteration it stops when
\* solved >= solved_threshold and goes on otherwise; it is over only when
\* solved >= solved_threshold or niter iterations have run; once it stopped,
\* no push, critic step, actor step, anneal or solved check follows.
C2_LoopTerminates ==
  /\ <>(pc \in Halted)
  /\ [][(C2_AtTop /\ solved >= opt.solved_threshold) =>
          (pc' = "done" /\ ops' = ops)]_vars
  /\ [][(C2_AtTop /\ solved < opt.solved_threshold) => pc' = "critic"]_vars
  /\ [][pc = "done" => (pc' = "done" /\ ops' = ops)]_vars
  /\ [](pc = "done" =>
          (solved >= opt.solved_threshold \/ cur_iter = opt.niter))

\* The loop stopped on the solved test, after some iterations and before
\* the iteration budget was used up.
C2_Witness ==
  /\ pc = "done"
  /\ cur_iter < opt.niter
  /\ ops.check > 0
  /\ solved >= opt.solved_threshold

\* ------------------------------------------------------------------ C3
\* C3 as stated: solved is the number of consecutive successful checks
\* ending at the latest one.
C3_ConsecutiveStreak == solved = streak

\* C3 as amended: solved is never below the number of consecutive successes
\* ending at the latest check, equals it exactly when no failure has been
\* tolerated since the last reset (solved_fail = 0), and always equals it
\* when solved_max_fail <= 1; in that case an exit through the solved test
\* comes after solved_threshold consecutive successes.
C3_SolvedVsStreak ==
  /\ streak <= solved
  /\ (solved = streak) <=> (solved_fail = 0)
  /\ opt.solved_max_fail <= 1 => solved = streak
  /\ (opt.solved_max_fail <= 1 /\ pc = "done" /\ cur_iter < opt.niter) =>
       streak >= opt.solved_threshold

\* A failure was tolerated inside a streak: solved counts successes on both
\* sides of it.
C3_Witness ==
  /\ pc = "for"
  /\ opt.solved_max_fail = 2
  /\ results = << TRUE, FALSE, TRUE >>
  /\ solved = 2
  /\ streak = 1

\* ------------------------------------------------------------------ C4
\* C4 as stated: for any initial gamma, critic.gamma never decreases.
C4_GammaMonotone == [][gamma' >= gamma]_vars

\* One step of the program, as far as gamma goes.
C4_Step ==
  /\ gamma' # gamma => (pc = "actor" /\ pc' = "evidence")
  /\ ops'.anneal # ops.anneal =>
       /\ ops'.anneal = ops.anneal + 1
       /\ pc = "actor" /\ actor_i >= actor_iters
       /\ gamma' = (IF gamma + opt.gamma_inc <= One
                      THEN gamma + opt.gamma_inc ELSE One)
       /\ gamma' <= One
       /\ gamma <= One => gamma' >= gamma

\* C4 as amended: gamma is changed only by the anneal step, once per outer
\* iteration after the actor phase, to min(gamma + gamma_inc, 1.0); after an
\* anneal step it never exceeds 1.0; and for an initial gamma <= 1.0 (and
\* gamma_inc >= 0) it never decreases.
C4_GammaAnneal ==
  /\ [][C4_Step]_vars
  /\ [](ops.anneal > 0 => gamma <= One)
  /\ [](opt.gamma <= One => gamma >= opt.gamma)
  /\ [](pc = "for" => ops.anneal = cur_iter)

\* gamma was raised twice and the second anneal hit the cap.
C4_Witness ==
  /\ opt.gamma < One
  /\ opt.gamma_inc > 0
  /\ opt.gamma + 2 * opt.gamma_inc > One
  /\ ops.anneal = 2
  /\ gamma = One

\* ------------------------------------------------------------------ C5
\* C5: with the startup check passed, buffer.sample(batch_size) is called
\* on a buffer holding at least batch_size entries: every critic inner
\* iteration pushes the batch it has just generated, once, right before its
\* one sample call, and no sample call fails.
C5_SampleAfterPush ==
  /\ pc = "sample" =>
       /\ Len(buffer) >= opt.batch_size
       /\ ops.push = ops.sample + 1
       /\ generated.src = "critic"
       /\ generated.ids = { buffer[i] :
            i \in (Len(buffer) - opt.batch_size + 1)..Len(buffer) }
  /\ pc # "sample" => ops.push = ops.sample
  /\ pc # "critic_update" => ops.sample = ops.cstep
  /\ pc = "critic_update" => ops.sample = ops.cstep + 1

\* The very first sample call, in a burn-in iteration, with a batch of two.
C5_Witness ==
  /\ pc = "sample"
  /\ cur_iter = 0
  /\ cur_iter < opt.burnin
  /\ critic_i = 0
  /\ ops.sample = 0
  /\ opt.batch_size = 2

\* ------------------------------------------------------------------ C6
\* C6: the buffer never holds more than its capacity C; once more than C
\* entries have been pushed it holds exactly C, namely the C most recently
\* pushed ones, oldest first; a sample returns only such entries.
C6_FifoEviction ==
  LET C == ReplaySize(opt)
  IN /\ Len(buffer) <= C
     /\ pushed > C => Len(buffer) = C
     /\ pushed <= C => Len(buffer) = pushed
     /\ \A i \in 1..Len(buffer) : buffer[i] = pushed - Len(buffer) + i
     /\ generated.src = "replay" =>
          /\ Cardinality(generated.ids) = opt.batch_size
          /\ \A e \in generated.ids : e > pushed - C /\ e <= pushed

\* A sample taken from a full buffer that has evicted entries.
C6_Witness ==
  /\ generated.src = "replay"
  /\ pushed > ReplaySize(opt)
  /\ ReplaySize(opt) >= 2
  /\ pc = "critic_update"

\* ------------------------------------------------------------------ C7
C7_Step ==
  /\ ops'.cstep # ops.cstep => (requires_grad /\ pc = "critic_update")
  /\ ~requires_grad => ops'.cstep = ops.cstep
  /\ ops'.astep # ops.astep => (~requires_grad /\ pc = "actor_update")

\* C7: critic_optimizer.step() is called only in the critic phase, with the
\* critic parameters re-enabled for gradients; from the freeze to the next
\* re-enable only actor_optimizer.step() is called and the critic parameters
\* (their version is the number of critic steps) do not change.
C7_CriticFrozen ==
  /\ [][C7_Step]_vars
  /\ [](pc \in {"critic", "push", "sample", "critic_update"} => requires_grad)
  /\ [](pc \in {"actor", "actor_update", "evidence", "check"} => ~requires_grad)

\* A critic step in a later iteration, after the critic had been frozen for
\* an actor step.
C7_Witness ==
  /\ pc = "critic_update"
  /\ cur_iter >= 1
  /\ ops.astep >= 1
  /\ requires_grad

\* ------------------------------------------------------------------ C8
C8_CriticCount ==
  IF cur_iter < opt.burnin THEN opt.burnin_critic_iters ELSE opt.critic_iters

C8_ActorCount ==
  IF cur_iter < opt.burnin THEN opt.burnin_actor_iters ELSE opt.actor_iters

\* C8: outer iteration k makes burnin_critic_iters critic steps if k < burnin
\* and critic_iters otherwise, and burnin_actor_iters actor steps if
\* k < burnin and actor_iters otherwise, one step per inner iteration; all
\* its critic steps come before its first actor step.
C8_PhaseCounts ==
  /\ pc \in {"critic", "push", "sample", "critic_update"} =>
       /\ ops.astep = ops0.astep
       /\ ops.cstep - ops0.cstep = critic_i
       /\ critic_i <= C8_CriticCount
  /\ pc \in {"actor", "actor_update"} =>
       /\ ops.cstep - ops0.cstep = C8_CriticCount
       /\ ops.astep - ops0.astep = actor_i
       /\ actor_i <= C8_ActorCount
  /\ pc \in {"evidence", "check"} =>
       /\ ops.cstep - ops0.cstep = C8_CriticCount
       /\ ops.astep - ops0.astep = C8_ActorCount

\* The first iteration after a burn-in of one, whose counts differ from the
\* burn-in counts, has finished both phases.
C8_Witness ==
  /\ pc = "evidence"
  /\ opt.burnin = 1
  /\ cur_iter = 1
  /\ opt.burnin_critic_iters = 2
  /\ opt.critic_iters = 1
  /\ opt.burnin_actor_iters = 0
  /\ opt.actor_iters = 2
  /\ ops.cstep - ops0.cstep = 1
  /\ ops.astep - ops0.astep = 2

\* ------------------------------------------------------------------ C9
\* C9: every actor() call of the critic phase runs with eps_sample equal to
\* (eps > 1e-8); an actor() call of the actor phase runs with eps_sample off
\* if it is the first one of a visualization iteration and with (eps > 1e-8)
\* otherwise.
C9_EpsSample ==
  /\ last_gen.phase = "critic" =>
       last_gen.eps_sample = (opt.eps > EpsThreshold)
  /\ last_gen.phase = "actor" =>
       last_gen.eps_sample =
         (IF last_gen.first_vis THEN FALSE ELSE opt.eps > EpsThreshold)

\* A critic-phase generation with exploration on, in the iteration after a
\* visualization iteration that ran no actor iteration.
C9_Witness ==
  /\ last_gen.phase = "critic"
  /\ last_gen.iter = cur_iter
  /\ last_gen.eps_sample
  /\ cur_iter >= 1
  /\ (cur_iter - 1) % opt.gen_every = 0
  /\ (IF cur_iter - 1 < opt.burnin
        THEN opt.burnin_actor_iters ELSE opt.actor_iters) = 0

\* ----------------------------------------------------------------- C10
\* C10: for task 'words' the batch handed to task.solved never has a real
\* example as its last row.
C10_RealRowStripped ==
  (opt.task = "words" /\ params.kind = "generated") => ~params.real_last

\* ----------------------------------------------------------------- C11
\* A successful check leaves solved_fail as it was.
C11_Step ==
  (pc = "check" /\ Len(results') = Len(results) + 1
     /\ results'[Len(results')]) => solved_fail' = solved_fail

\* C11: at the end of every outer iteration, for solved_max_fail >= 1 and
\* solved_threshold >= 0, 0 <= solved_fail < solved_max_fail, solved_fail > 0
\* only with solved > 0, and 0 <= solved <= solved_threshold; a successful
\* check does not reset solved_fail, so the failures of one streak add up
\* towards solved_max_fail.
C11_CounterRanges ==
  /\ [][C11_Step]_vars
  /\ []((pc = "for" /\ opt.solved_max_fail >= 1 /\ opt.solved_threshold >= 0) =>
          /\ 0 <= solved_fail
          /\ solved_fail < opt.solved_max_fail
          /\ solved_fail > 0 => solved > 0
          /\ 0 <= solved
          /\ solved <= opt.solved_threshold)

\* Two failures of one streak, with a success between them, have added up.
C11_Witness ==
  /\ pc = "for"
  /\ opt.solved_max_fail = 3
  /\ opt.solved_threshold = 3
  /\ results = << TRUE, FALSE, TRUE, FALSE >>
  /\ solved = 2
  /\ solved_fail = 2

=============================================================================
